---- MODULE Spec2Model ----
(***************************************************************************)
(* provider.Import of terracognita: the import orchestration pipeline.     *)
(* One run of Import is modelled as a sequential state machine whose       *)
(* program counter pc walks the statements of the function.  The Provider, *)
(* the Resources and the two Writers are collaborators behind interfaces:  *)
(* what they return is drawn nondeterministically at each call.            *)
(***************************************************************************)
EXTENDS Naturals, Sequences, FiniteSets

(* ------------------------------ bounds -------------------------------- *)

\* longest Include list
MaxTypes == 2
\* units of a whole run: the resources p.Resources returns plus the
\* additional resources their ImportState returns
MaxUnits == 3

\* attempts RetryDefault gives the operation
DefaultAttempts == 3

\* the resource types the provider supports
Supported == {"a", "b"}

\* the resource type identifiers a Filter may name: "x" is not supported
Types == Supported \cup {"x"}

\* the Exclude lists of the runs: none, one type, two types, and lists that
\* name the unsupported type first or second
ExcludeLists == {<<>>, <<"a">>, <<"b">>, <<"x">>, <<"a", "b">>, <<"a", "x">>}

(* ------------------------------ helpers ------------------------------- *)

Range(s) == {s[i] : i \in 1..Len(s)}

SeqsUpTo(S, n) == UNION {[1..k -> S] : k \in 0..n}

Last(s) == s[Len(s)]

IsPrefix(s, t) == Len(s) <= Len(t) /\ SubSeq(t, 1, Len(s)) = s

RECURSIVE SumN(_)
SumN(log) == IF log = <<>> THEN 0 ELSE Head(log).n + SumN(Tail(log))

(* ------------------------------- state -------------------------------- *)

VARIABLES
    Include,      \* f.Include
    Exclude,      \* f.Exclude
    hcl,          \* TRUE iff the hcl writer is not nil
    tfstate,      \* TRUE iff the tfstate writer is not nil
    ctxDone,      \* TRUE iff the caller's ctx is cancelled
    pc,           \* position in Import
    err,          \* the value Import returns (meaningful when pc = "done")
    types,        \* local: types
    providerTypes,\* what p.ResourceTypes() returned, <<>> when it was not called
    ti,           \* index of the for-range over types
    logger,       \* the "resource" keyvals kitlog.With has put on logger
    resources,    \* local: resources
    ri,           \* index of the for-range over resources
    units,        \* append([]Resource{re}, res...)
    ui,           \* index of the for-range over units
    attempts,     \* Read calls RetryDefault made for the unit being serialized, else 0
    callLog,      \* the calls Import made on its collaborators, in order
    logs,         \* events of logger.Log, in order
    cancelPoint   \* where the run was when ctx was cancelled

vars == <<Include, Exclude, hcl, tfstate, ctxDone, pc, err, types, providerTypes, ti,
          logger, resources, ri, units, ui, attempts, callLog, logs, cancelPoint>>

inputs == <<Include, Exclude, hcl, tfstate>>
ctxVars == <<ctxDone, cancelPoint>>

(* ------------------------------ errors -------------------------------- *)

Nil == [code |-> "nil", type |-> "", in |-> ""]

\* errors.Wrapf(errcode.ErrProviderResourceNotSupported, "type %s on <list> filter", t)
ErrNotSupported(t, list) == [code |-> "ErrProviderResourceNotSupported", type |-> t, in |-> list]

\* an error of a collaborator, as Import returns it
ErrOf(code, t, wrap) == [code |-> code, type |-> t, in |-> wrap]

(* --------------------------- collaborators ---------------------------- *)

\* p.HasResourceType(t)
HasResourceType(t) == t \in Supported

\* the lists p.ResourceTypes() may return: the supported types, each once, in
\* any order
ProviderLists == {s \in [1..Cardinality(Supported) -> Supported] : Range(s) = Supported}

\* f.IsExcluded(t)
IsExcluded(t) == t \in Range(Exclude)

\* util.RetryDefault(op): outcomes[i] is TRUE iff the i-th call of op returns nil
RetryDefault(outcomes) ==
    IF \E i \in 1..DefaultAttempts : outcomes[i]
    THEN LET first == CHOOSE i \in 1..DefaultAttempts :
                          outcomes[i] /\ \A j \in 1..(i - 1) : ~outcomes[j]
         IN  [failed |-> FALSE, attempts |-> first]
    ELSE [failed |-> TRUE, attempts |-> DefaultAttempts]

\* one call on a collaborator: the operation, the type it is for, the unit it
\* is on (for p.Resources the position of the type in the universe), whether it
\* returned nil, and how many resources it returned
Call(op, t, unit, ok, n) == [op |-> op, type |-> t, unit |-> unit, ok |-> ok, n |-> n]

IsFetch(c) == c.op = "Resources"
IsImportState(c) == c.op = "ImportState"
IsRead(c) == c.op = "Read"
IsHCL(c) == c.op = "HCL"
IsState(c) == c.op = "State"
IsSync(c) == c.op \in {"hcl.Sync", "tfstate.Sync"}
IsSerialize(c) == IsHCL(c) \/ IsState(c)

\* resources fetched and expanded so far in the run
UnitsSoFar == SumN(callLog)

(* -------------------------------- logs -------------------------------- *)

\* an event of the outer logger: func and the accumulated "resource" keyvals
Event(ctx, key, val) ==
    [resource |-> ctx, id |-> <<>>, total |-> 0, current |-> 0, key |-> key, val |-> val]

\* an event of the inner logger:
\* kitlog.With(logger, "id", re.ID(), "total", resourceLen, "current", i+1)
ResEvent(ctx, re, total, current, key, val) ==
    [resource |-> ctx, id |-> re, total |-> total, current |-> current, key |-> key, val |-> val]

(* -------------------------------- Init -------------------------------- *)

Init ==
    /\ Include \in SeqsUpTo(Types, MaxTypes)
    /\ Exclude \in ExcludeLists
    /\ hcl \in BOOLEAN
    /\ tfstate \in BOOLEAN
    /\ ctxDone = FALSE
    /\ cancelPoint = "none"
    /\ pc = "start"
    /\ err = Nil
    /\ types = <<>>
    /\ providerTypes = <<>>
    /\ ti = 0
    /\ logger = <<>>
    /\ resources = <<>>
    /\ ri = 0
    /\ units = <<>>
    /\ ui = 0
    /\ attempts = 0
    /\ callLog = <<>>
    /\ logs = <<>>

(* ------------------------------ Import -------------------------------- *)

\* index of the first entry of list the provider does not support, 0 if none
FirstUnsupported(list) ==
    IF \E i \in 1..Len(list) : ~HasResourceType(list[i])
    THEN CHOOSE i \in 1..Len(list) :
             ~HasResourceType(list[i]) /\ \A j \in 1..(i - 1) : HasResourceType(list[j])
    ELSE 0

\* faulty variant: only the first entry of Include is validated
ValidateIncludeFirstEntryOnly ==
    IF Len(Include) # 0 /\ ~HasResourceType(Include[1])
    THEN ErrNotSupported(Include[1], "Include")
    ELSE Nil

\* lines 26-32: the error of the Include filter, Nil if it is right
ValidateInclude ==
    IF Len(Include) # 0 /\ FirstUnsupported(Include) # 0
    THEN ErrNotSupported(Include[FirstUnsupported(Include)], "Include")
    ELSE Nil

\* faulty variant: Exclude is validated only when Include is empty
ValidateExcludeUnlessInclude ==
    IF Len(Include) = 0 /\ Len(Exclude) # 0 /\ FirstUnsupported(Exclude) # 0
    THEN ErrNotSupported(Exclude[FirstUnsupported(Exclude)], "Exclude")
    ELSE Nil

\* lines 38-45: the error of the Exclude filter, Nil if it is right
ValidateExclude ==
    IF Len(Exclude) # 0 /\ FirstUnsupported(Exclude) # 0
    THEN ErrNotSupported(Exclude[FirstUnsupported(Exclude)], "Exclude")
    ELSE Nil

\* faulty variant: Include does not replace the provider's list
UniverseIgnoringInclude(rt) == rt

\* lines 27-36: types, where rt is what p.ResourceTypes() returns
Universe(rt) == IF Len(Include) # 0 THEN Include ELSE rt

\* faulty variant: the nil check of the hcl writer is missing
HclNeverChecked == TRUE

\* hcl != nil
HclConfigured == hcl

\* faulty variant: the tfstate writer is taken to be nil
TfstateNeverConfigured == FALSE

\* tfstate != nil
TfstateConfigured == tfstate

\* faulty variant: an error raised in the loops still runs the finalization
ReturnThroughFinalization(e) ==
    /\ err' = e
    /\ pc' = IF e.code \in {"nil", "SyncError", "ErrProviderResourceNotSupported"}
             THEN "done"
             ELSE "syncHcl"

\* return e
Return(e) ==
    /\ err' = e
    /\ pc' = "done"

\* the type the for-range over types is at
CurrentType == types[ti]

\* the resource the for-range over resources is at
CurrentResource == resources[ri]

\* the resources p.Resources returns when it returns n of them
Fetched(n) == [i \in 1..n |-> <<ti, i, 0>>]

\* the resources re.ImportState() returns when it returns k of them
Expanded(re, k) == [j \in 1..k |-> <<re[1], re[2], j>>]

\* faulty variant: the expansions are put before the original resource
ProcessingSetExpansionsFirst(re, res) == res \o <<re>>

\* line 79: append([]Resource{re}, res...)
ProcessingSet(re, res) == <<re>> \o res

\* lines 24-48: the universe of types and the validation of both filters
Validate ==
    /\ pc = "start"
    /\ IF ValidateInclude # Nil
       THEN /\ Return(ValidateInclude)
            /\ UNCHANGED <<types, providerTypes, ti, logs>>
       ELSE \E rt \in ProviderLists :
                /\ types' = Universe(rt)
                /\ providerTypes' = IF Len(Include) # 0 THEN <<>> ELSE rt
                /\ IF ValidateExclude # Nil
                   THEN /\ Return(ValidateExclude)
                        /\ UNCHANGED <<ti, logs>>
                   ELSE /\ logs' = Append(logs, Event(logger, "filters", "f.String()"))
                        /\ ti' = 1
                        /\ pc' = "types"
                        /\ UNCHANGED err
    /\ UNCHANGED <<inputs, ctxVars, callLog, logger, resources, ri, units, ui, attempts>>

\* faulty variant: the loop over types stops one type early
TypesExhaustedOneEarly == ti >= Len(types)

\* line 50: the for-range over types has no type left
TypesExhausted == ti > Len(types)

\* faulty variant: the excluded type is logged but the continue is missing
SkipExcludedWithoutContinue ==
    /\ logs' = Append(logs, Event(logger', "msg", "excluded"))
    /\ pc' = "fetch"
    /\ UNCHANGED ti

\* lines 53-56: the type is excluded
SkipExcluded ==
    /\ logs' = Append(logs, Event(logger', "msg", "excluded"))
    /\ ti' = ti + 1
    /\ pc' = "types"

\* line 58: the type is not excluded
GoFetch ==
    /\ logs' = Append(logs, Event(logger', "msg", "fetching the list of resources"))
    /\ pc' = "fetch"
    /\ UNCHANGED ti

\* lines 50-58 and 115: the head of the loop over types
TypeLoop ==
    /\ pc = "types"
    /\ IF TypesExhausted
       THEN /\ pc' = "syncHcl"
            /\ UNCHANGED <<ti, logger, logs>>
       ELSE /\ logger' = Append(logger, CurrentType)
            /\ IF IsExcluded(CurrentType) THEN SkipExcluded ELSE GoFetch
    /\ UNCHANGED <<inputs, ctxVars, callLog, err, types, providerTypes, resources, ri,
                   units, ui, attempts>>

\* faulty variant: a failed p.Resources skips the type and the run continues
FetchFailureSkipsType ==
    /\ pc = "fetch"
    /\ \/ /\ callLog' = Append(callLog, Call("Resources", CurrentType, <<ti>>, FALSE, 0))
          /\ ti' = ti + 1
          /\ pc' = "types"
          /\ UNCHANGED <<resources, ri, err>>
       \/ \E n \in 0..(MaxUnits - UnitsSoFar) :
              /\ callLog' = Append(callLog, Call("Resources", CurrentType, <<ti>>, TRUE, n))
              /\ resources' = Fetched(n)
              /\ ri' = 1
              /\ pc' = "resources"
              /\ UNCHANGED <<err, ti>>
    /\ UNCHANGED <<inputs, ctxVars, types, providerTypes, logger, units, ui, attempts, logs>>

\* lines 60-65: p.Resources(ctx, t, f)
Fetch ==
    /\ pc = "fetch"
    /\ \/ /\ callLog' = Append(callLog, Call("Resources", CurrentType, <<ti>>, FALSE, 0))
          /\ Return(ErrOf("FetchError", CurrentType, "WithStack"))
          /\ UNCHANGED <<resources, ri>>
       \/ \E n \in 0..(MaxUnits - UnitsSoFar) :
              /\ callLog' = Append(callLog, Call("Resources", CurrentType, <<ti>>, TRUE, n))
              /\ resources' = Fetched(n)
              /\ ri' = 1
              /\ pc' = "resources"
              /\ UNCHANGED err
    /\ UNCHANGED <<inputs, ctxVars, types, providerTypes, ti, logger, units, ui, attempts, logs>>

\* faulty variant: a failed re.ImportState() is taken as no additional resource
ImportStateFailureIgnored ==
    /\ pc = "resources"
    /\ IF ri > Len(resources)
       THEN /\ logs' = Append(logs, Event(logger, "msg", "importing done"))
            /\ ti' = ti + 1
            /\ pc' = "types"
            /\ UNCHANGED <<err, callLog, units, ui>>
       ELSE /\ logs' = Append(logs, ResEvent(logger, CurrentResource, Len(resources), ri,
                                             "msg", "reading from TF"))
            /\ UNCHANGED <<ti, err>>
            /\ ui' = 1
            /\ pc' = "units"
            /\ \/ /\ callLog' = Append(callLog, Call("ImportState", CurrentType, CurrentResource, FALSE, 0))
                  /\ units' = ProcessingSet(CurrentResource, <<>>)
               \/ \E k \in 0..(MaxUnits - UnitsSoFar) :
                      /\ callLog' = Append(callLog, Call("ImportState", CurrentType, CurrentResource, TRUE, k))
                      /\ units' = ProcessingSet(CurrentResource, Expanded(CurrentResource, k))
    /\ UNCHANGED <<inputs, ctxVars, types, providerTypes, logger, resources, ri, attempts>>

\* lines 66-79 and 109-113: the head of the loop over resources and re.ImportState()
ResourceLoop ==
    /\ pc = "resources"
    /\ IF ri > Len(resources)
       THEN /\ logs' = Append(logs, Event(logger, "msg", "importing done"))
            /\ ti' = ti + 1
            /\ pc' = "types"
            /\ UNCHANGED <<err, callLog, units, ui>>
       ELSE /\ logs' = Append(logs, ResEvent(logger, CurrentResource, Len(resources), ri,
                                             "msg", "reading from TF"))
            /\ UNCHANGED ti
            /\ \/ /\ callLog' = Append(callLog, Call("ImportState", CurrentType, CurrentResource, FALSE, 0))
                  /\ Return(ErrOf("ImportStateError", CurrentType, ""))
                  /\ UNCHANGED <<units, ui>>
               \/ \E k \in 0..(MaxUnits - UnitsSoFar) :
                      /\ callLog' = Append(callLog, Call("ImportState", CurrentType, CurrentResource, TRUE, k))
                      /\ units' = ProcessingSet(CurrentResource, Expanded(CurrentResource, k))
                      /\ ui' = 1
                      /\ pc' = "units"
                      /\ UNCHANGED err
    /\ UNCHANGED <<inputs, ctxVars, types, providerTypes, logger, resources, ri, attempts>>

\* faulty variant: the continue is missing and the unit is serialized anyway
ReadFailedFallsThrough ==
    /\ logs' = Append(logs, ResEvent(logger, CurrentResource, Len(resources), ri, "error", "cause"))
    /\ attempts' = DefaultAttempts
    /\ pc' = "hcl"
    /\ UNCHANGED <<ui, err>>

\* faulty variant: the error of the Read is returned
ReadFailedReturnsError ==
    /\ logs' = Append(logs, ResEvent(logger, CurrentResource, Len(resources), ri, "error", "cause"))
    /\ attempts' = 0
    /\ Return(ErrOf("ReadError", CurrentType, ""))
    /\ UNCHANGED ui

\* lines 81-90: the Read of the unit failed on every attempt
ReadFailed ==
    /\ logs' = Append(logs, ResEvent(logger, CurrentResource, Len(resources), ri, "error", "cause"))
    /\ attempts' = 0
    /\ ui' = ui + 1
    /\ pc' = "units"
    /\ UNCHANGED err

\* faulty variant: a Read that succeeded on a retry is treated as failed
ReadSucceededFirstAttemptOnly(n) ==
    IF n = 1
    THEN /\ attempts' = n
         /\ pc' = "hcl"
         /\ UNCHANGED <<ui, logs, err>>
    ELSE /\ attempts' = 0
         /\ ui' = ui + 1
         /\ pc' = "units"
         /\ UNCHANGED <<logs, err>>

\* line 80, err == nil: on to the serialization of the unit
ReadSucceeded(n) ==
    /\ attempts' = n
    /\ pc' = "hcl"
    /\ UNCHANGED <<ui, logs, err>>

\* lines 79-90: the head of the loop over the units and util.RetryDefault(r.Read)
UnitLoop ==
    /\ pc = "units"
    /\ IF ui > Len(units)
       THEN /\ ri' = ri + 1
            /\ pc' = "resources"
            /\ UNCHANGED <<ui, attempts, callLog, logs, err>>
       ELSE \E outcomes \in [1..DefaultAttempts -> BOOLEAN] :
                LET r == RetryDefault(outcomes)
                IN  /\ callLog' = Append(callLog, Call("Read", CurrentType, units[ui], ~r.failed, 0))
                    /\ UNCHANGED ri
                    /\ IF r.failed THEN ReadFailed ELSE ReadSucceeded(r.attempts)
    /\ UNCHANGED <<inputs, ctxVars, types, providerTypes, ti, logger, resources, units>>

\* faulty variant: the return after a failed r.HCL is missing
HCLFailureFallsThrough ==
    /\ pc = "hcl"
    /\ IF HclConfigured
       THEN /\ logs' = Append(logs, ResEvent(logger, CurrentResource, Len(resources), ri,
                                             "msg", "calculating HCL"))
            /\ \E ok \in BOOLEAN :
                   callLog' = Append(callLog, Call("HCL", CurrentType, units[ui], ok, 0))
            /\ pc' = "state"
            /\ UNCHANGED <<err, attempts>>
       ELSE /\ pc' = "state"
            /\ UNCHANGED <<err, callLog, logs, attempts>>
    /\ UNCHANGED <<inputs, ctxVars, types, providerTypes, ti, logger, resources, ri, units, ui>>

\* lines 92-98: r.HCL(hcl)
HCL ==
    /\ pc = "hcl"
    /\ IF HclConfigured
       THEN /\ logs' = Append(logs, ResEvent(logger, CurrentResource, Len(resources), ri,
                                             "msg", "calculating HCL"))
            /\ \/ /\ callLog' = Append(callLog, Call("HCL", CurrentType, units[ui], FALSE, 0))
                  /\ Return(ErrOf("SerializationError", CurrentType, "Config"))
                  /\ attempts' = 0
               \/ /\ callLog' = Append(callLog, Call("HCL", CurrentType, units[ui], TRUE, 0))
                  /\ pc' = "state"
                  /\ UNCHANGED <<err, attempts>>
       ELSE /\ pc' = "state"
            /\ UNCHANGED <<err, callLog, logs, attempts>>
    /\ UNCHANGED <<inputs, ctxVars, types, providerTypes, ti, logger, resources, ri, units, ui>>

\* lines 100-107: r.State(tfstate), then the next unit
State ==
    /\ pc = "state"
    /\ IF TfstateConfigured
       THEN /\ logs' = Append(logs, ResEvent(logger, CurrentResource, Len(resources), ri,
                                             "msg", "calculating TFState"))
            /\ \/ /\ callLog' = Append(callLog, Call("State", CurrentType, units[ui], FALSE, 0))
                  /\ Return(ErrOf("SerializationError", CurrentType, "State"))
                  /\ attempts' = 0
                  /\ UNCHANGED ui
               \/ /\ callLog' = Append(callLog, Call("State", CurrentType, units[ui], TRUE, 0))
                  /\ ui' = ui + 1
                  /\ attempts' = 0
                  /\ pc' = "units"
                  /\ UNCHANGED err
       ELSE /\ ui' = ui + 1
            /\ attempts' = 0
            /\ pc' = "units"
            /\ UNCHANGED <<err, callLog, logs>>
    /\ UNCHANGED <<inputs, ctxVars, types, providerTypes, ti, logger, resources, ri, units>>

\* faulty variant: a failed hcl.Sync does not stop the finalization
SyncHCLFailureIgnored ==
    /\ pc = "syncHcl"
    /\ IF HclConfigured
       THEN \/ /\ callLog' = Append(callLog, Call("hcl.Sync", "", <<>>, FALSE, 0))
               /\ logs' = Append(logs, Event(logger, "msg", "writing the HCL"))
               /\ pc' = "syncState"
               /\ UNCHANGED err
            \/ /\ callLog' = Append(callLog, Call("hcl.Sync", "", <<>>, TRUE, 0))
               /\ logs' = logs \o <<Event(logger, "msg", "writing the HCL"),
                                    Event(logger, "msg", "writing the HCL done")>>
               /\ pc' = "syncState"
               /\ UNCHANGED err
       ELSE /\ pc' = "syncState"
            /\ UNCHANGED <<err, callLog, logs>>
    /\ UNCHANGED <<inputs, ctxVars, types, providerTypes, ti, logger, resources, ri, units,
                   ui, attempts>>

\* lines 115-126: hcl.Sync()
SyncHCL ==
    /\ pc = "syncHcl"
    /\ IF HclConfigured
       THEN \/ /\ callLog' = Append(callLog, Call("hcl.Sync", "", <<>>, FALSE, 0))
               /\ logs' = Append(logs, Event(logger, "msg", "writing the HCL"))
               /\ Return(ErrOf("SyncError", "", "Config"))
            \/ /\ callLog' = Append(callLog, Call("hcl.Sync", "", <<>>, TRUE, 0))
               /\ logs' = logs \o <<Event(logger, "msg", "writing the HCL"),
                                    Event(logger, "msg", "writing the HCL done")>>
               /\ pc' = "syncState"
               /\ UNCHANGED err
       ELSE /\ pc' = "syncState"
            /\ UNCHANGED <<err, callLog, logs>>
    /\ UNCHANGED <<inputs, ctxVars, types, providerTypes, ti, logger, resources, ri, units,
                   ui, attempts>>

\* faulty variant: a failed tfstate.Sync is reported as a failure of the config sink
SyncStateReportsConfig ==
    /\ pc = "syncState"
    /\ IF TfstateConfigured
       THEN \/ /\ callLog' = Append(callLog, Call("tfstate.Sync", "", <<>>, FALSE, 0))
               /\ logs' = Append(logs, Event(logger, "msg", "writing the TFState"))
               /\ Return(ErrOf("SyncError", "", "Config"))
            \/ /\ callLog' = Append(callLog, Call("tfstate.Sync", "", <<>>, TRUE, 0))
               /\ logs' = logs \o <<Event(logger, "msg", "writing the TFState"),
                                    Event(logger, "msg", "writing the TFState done")>>
               /\ Return(Nil)
       ELSE /\ Return(Nil)
            /\ UNCHANGED <<callLog, logs>>
    /\ UNCHANGED <<inputs, ctxVars, types, providerTypes, ti, logger, resources, ri, units,
                   ui, attempts>>

\* lines 128-141: tfstate.Sync() and return nil
SyncState ==
    /\ pc = "syncState"
    /\ IF TfstateConfigured
       THEN \/ /\ callLog' = Append(callLog, Call("tfstate.Sync", "", <<>>, FALSE, 0))
               /\ logs' = Append(logs, Event(logger, "msg", "writing the TFState"))
               /\ Return(ErrOf("SyncError", "", "State"))
            \/ /\ callLog' = Append(callLog, Call("tfstate.Sync", "", <<>>, TRUE, 0))
               /\ logs' = logs \o <<Event(logger, "msg", "writing the TFState"),
                                    Event(logger, "msg", "writing the TFState done")>>
               /\ Return(Nil)
       ELSE /\ Return(Nil)
            /\ UNCHANGED <<callLog, logs>>
    /\ UNCHANGED <<inputs, ctxVars, types, providerTypes, ti, logger, resources, ri, units,
                   ui, attempts>>

\* the caller cancels ctx while Import runs; Import reads ctx nowhere and only
\* hands it to p.Resources (line 60)
Cancel ==
    /\ pc # "done"
    /\ ~ctxDone
    /\ ctxDone' = TRUE
    /\ cancelPoint' = IF pc \in {"syncHcl", "syncState"} THEN "finalization"
                      ELSE IF \E i \in 1..Len(callLog) : IsSerialize(callLog[i]) /\ callLog[i].ok
                           THEN "afterSerialize"
                           ELSE "beforeSerialize"
    /\ UNCHANGED <<inputs, callLog, pc, err, types, providerTypes, ti, logger, resources, ri,
                   units, ui, attempts, logs>>

Next ==
    \/ Validate
    \/ TypeLoop
    \/ Fetch
    \/ ResourceLoop
    \/ UnitLoop
    \/ HCL
    \/ State
    \/ SyncHCL
    \/ SyncState

Spec == Init /\ [][Next]_vars

NextCancel ==
    \/ Next
    \/ Cancel

SpecCancel == Init /\ [][NextCancel]_vars

\* Import is given both writers
InitBothSinks ==
    /\ Init
    /\ hcl
    /\ tfstate

\* the runs of Import with both writers
SpecBothSinks == InitBothSinks /\ [][Next]_vars

\* Import is given at least one writer
InitSinks ==
    /\ Init
    /\ hcl \/ tfstate

\* the runs of Import with at least one writer
SpecSinks == InitSinks /\ [][Next]_vars

(* ------------------------------ properties ---------------------------- *)

Done == pc = "done"

HasUnsupported(list) == \E i \in 1..Len(list) : ~HasResourceType(list[i])

IsValidationError(e) == e.code = "ErrProviderResourceNotSupported"

\* a call that returned an error
Failed(c) == ~c.ok

UnitsOf(cs) == [i \in 1..Len(cs) |-> cs[i].unit]

TypesOf(cs) == [i \in 1..Len(cs) |-> cs[i].type]

\* is unit u a unit of resource re
OfResource(u, re) == Len(u) = 3 /\ u[1] = re[1] /\ u[2] = re[2]

\* C1: when Include is non-empty and names a type the provider does not
\* support, the run makes no call at all on the provider, the resources or the
\* writers (no Resources, ImportState, Read, HCL, State or Sync), never enters
\* the loops, and can only return the resource-not-supported error that names
\* an unsupported entry of Include and the Include list.
C1_IncludeUnsupportedRejected ==
    (Len(Include) # 0 /\ HasUnsupported(Include)) =>
        /\ callLog = <<>>
        /\ pc \in {"start", "done"}
        /\ Done => /\ IsValidationError(err)
                   /\ err.in = "Include"
                   /\ err.type \in Range(Include)
                   /\ ~HasResourceType(err.type)

\* a run that returned the Include error for an unsupported second entry
C1_Witness ==
    /\ Done
    /\ Len(Include) = 2
    /\ HasResourceType(Include[1])
    /\ ~HasResourceType(Include[2])
    /\ err = ErrNotSupported(Include[2], "Include")
    /\ hcl
    /\ tfstate

\* C2: when Exclude is non-empty and names a type the provider does not
\* support, the run makes no call at all and can only return a
\* resource-not-supported error, whatever Include holds: the Include error when
\* Include itself names an unsupported type, the Exclude error otherwise.
C2_ExcludeUnsupportedRejected ==
    (Len(Exclude) # 0 /\ HasUnsupported(Exclude)) =>
        /\ callLog = <<>>
        /\ pc \in {"start", "done"}
        /\ Done => /\ IsValidationError(err)
                   /\ ~HasResourceType(err.type)
                   /\ IF HasUnsupported(Include)
                      THEN err.in = "Include" /\ err.type \in Range(Include)
                      ELSE err.in = "Exclude" /\ err.type \in Range(Exclude)

\* a run with a non-empty, fully supported Include that returned the Exclude error
C2_Witness ==
    /\ Done
    /\ Len(Include) # 0
    /\ ~HasUnsupported(Include)
    /\ HasUnsupported(Exclude)
    /\ IsValidationError(err)
    /\ err.in = "Exclude"
    /\ types = Include

SyncCalls(sink) == Len(SelectSeq(callLog, LAMBDA c : c.op = sink))

\* the types of the universe that are not excluded, in order
NonExcluded(ts) == SelectSeq(ts, LAMBDA t : ~IsExcluded(t))

\* no Resources, ImportState, Read, HCL or State call follows a Sync call: a
\* call that follows a Sync call directly is a Sync call
NoCallAfterSync ==
    \A i \in 1..(Len(callLog) - 1) : IsSync(callLog[i]) => IsSync(callLog[i + 1])

\* every type of the universe has been skipped or fetched and run through
AllTypesProcessed ==
    /\ ti = Len(types) + 1
    /\ Len(SelectSeq(callLog, IsFetch)) = Len(NonExcluded(types))

\* C3 as stated, read for the runs that reach finalization: when Import has
\* returned from the finalization (nil or a Sync error), each configured sink's
\* Sync was invoked exactly once, after every type was processed.
C3_SyncExactlyOncePerRun ==
    (Done /\ err.code \in {"nil", "SyncError"}) =>
        /\ hcl => SyncCalls("hcl.Sync") = 1
        /\ tfstate => SyncCalls("tfstate.Sync") = 1
        /\ NoCallAfterSync

\* C3 amended: each sink's Sync is invoked at most once per run and only if
\* the sink is configured; a run that returns nil invoked the Sync of every
\* configured sink exactly once; a run whose config Sync failed invoked the
\* config Sync once and the state Sync not at all; a run that returned any other
\* error before finalization invoked no Sync; and every Sync comes after all the
\* types have been processed, with no fetch, expansion, read or serialize call
\* after it.
C3_SyncOncePerSuccessfulRun ==
    LET nHcl == SyncCalls("hcl.Sync")
        nState == SyncCalls("tfstate.Sync")
    IN  /\ nHcl <= (IF hcl THEN 1 ELSE 0)
        /\ nState <= (IF tfstate THEN 1 ELSE 0)
        /\ (Done /\ err = Nil) =>
               /\ hcl => nHcl = 1
               /\ tfstate => nState = 1
        /\ (Done /\ err = ErrOf("SyncError", "", "Config")) =>
               /\ nHcl = 1
               /\ nState = 0
        /\ (Done /\ err = ErrOf("SyncError", "", "State")) =>
               /\ hcl => nHcl = 1
               /\ nState = 1
        /\ (Done /\ err.code \notin {"nil", "SyncError"}) => nHcl + nState = 0
        /\ NoCallAfterSync
        /\ nHcl + nState > 0 => AllTypesProcessed

\* a successful run over two fetched types, with units serialized into both
\* sinks and both Syncs made
C3_Witness ==
    /\ Done
    /\ err = Nil
    /\ hcl
    /\ tfstate
    /\ SyncCalls("hcl.Sync") = 1
    /\ SyncCalls("tfstate.Sync") = 1
    /\ Len(SelectSeq(callLog, IsFetch)) = 2
    /\ Len(SelectSeq(callLog, IsHCL)) >= 2
    /\ Len(SelectSeq(callLog, IsState)) >= 2

\* C4: when ctx is cancelled after a unit was serialized and before
\* finalization, no sink's Sync is invoked in the run.
C4_CancelledRunNeverSyncs ==
    cancelPoint = "afterSerialize" => \A i \in 1..Len(callLog) : ~IsSync(callLog[i])

\* the number of expansions ImportState returned for the resource of unit u
ExpansionsOf(u) ==
    LET i == CHOOSE i \in 1..Len(callLog) :
                 IsImportState(callLog[i]) /\ OfResource(u, callLog[i].unit)
    IN  callLog[i].n

\* the number of resources p.Resources returned for the type at position i
FetchedOf(i) ==
    LET j == CHOOSE j \in 1..Len(callLog) : IsFetch(callLog[j]) /\ callLog[j].unit = <<i>>
    IN  callLog[j].n

\* the call the loops make after the failed Read callLog[i]: the Read of the
\* next unit of the same resource, else the ImportState of the next resource of
\* the same type, else the Resources of a later type or a Sync
NextCallAfterFailedRead(i) ==
    LET u == callLog[i].unit
        nxt == callLog[i + 1]
    IN  IF u[3] < ExpansionsOf(u)
        THEN IsRead(nxt) /\ nxt.unit = <<u[1], u[2], u[3] + 1>>
        ELSE IF u[2] < FetchedOf(u[1])
             THEN IsImportState(nxt) /\ nxt.unit = <<u[1], u[2] + 1, 0>>
             ELSE \/ IsFetch(nxt) /\ nxt.unit[1] > u[1]
                                  /\ \A k \in (u[1] + 1)..(nxt.unit[1] - 1) : IsExcluded(types[k])
                  \/ IsSync(nxt) /\ \A k \in (u[1] + 1)..Len(types) : IsExcluded(types[k])

\* nothing was left to do after the failed Read callLog[i], the last call of
\* the run
NothingLeftAfter(i) ==
    LET u == callLog[i].unit
    IN  /\ u[3] = ExpansionsOf(u)
        /\ u[2] = FetchedOf(u[1])
        /\ \A k \in (u[1] + 1)..Len(types) : IsExcluded(types[k])
        /\ ~hcl
        /\ ~tfstate

\* C5: a unit whose Read failed on every attempt of RetryDefault is the unit
\* of no HCL and no State call, the run is not ended by it, and the next call
\* of the run is the one the loops make next: the Read of the next unit of the
\* same resource, the ImportState of the next resource, the Resources of the
\* next type that is not excluded, or the first Sync.
C5_FailedReadSkipsOnlyTheUnit ==
    LET failed == {i \in 1..Len(callLog) : Failed(callLog[i]) /\ IsRead(callLog[i])}
        failedUnits == {callLog[i].unit : i \in failed}
    IN  /\ \A j \in 1..Len(callLog) :
               IsSerialize(callLog[j]) => callLog[j].unit \notin failedUnits
        /\ \A i \in failed :
               /\ i < Len(callLog) => NextCallAfterFailedRead(i)
               /\ (i = Len(callLog) /\ Done) => (err = Nil /\ NothingLeftAfter(i))

\* the Read of an original resource failed, its expansion was read and
\* serialized next, and a resource of a later type was read and serialized too
C5_Witness ==
    /\ hcl
    /\ tfstate
    /\ \E i \in 1..Len(callLog) :
           /\ IsRead(callLog[i]) /\ Failed(callLog[i]) /\ callLog[i].unit[3] = 0
           /\ \E j \in (i + 1)..Len(callLog) :
                  /\ IsState(callLog[j]) /\ callLog[j].ok
                  /\ callLog[j].unit = <<callLog[i].unit[1], callLog[i].unit[2], 1>>
           /\ \E j \in (i + 1)..Len(callLog) :
                  /\ IsState(callLog[j]) /\ callLog[j].ok
                  /\ callLog[j].unit[1] > callLog[i].unit[1]

\* the types at which the loop logged an "excluded" event, in order
ExcludedEventTypes ==
    LET evs == SelectSeq(logs, LAMBDA e : e.key = "msg" /\ e.val = "excluded")
    IN  [i \in 1..Len(evs) |-> Last(evs[i].resource)]

Occurrences(t, ts) == Len(SelectSeq(ts, LAMBDA x : x = t))

\* the types the loop over types is through with
TypesPassed == SubSeq(types, 1, IF ti = 0 THEN 0 ELSE ti - 1)

\* C6 as stated, read for the runs that complete the loop over the types: a
\* type in Exclude is never fetched and the run logs exactly one "excluded"
\* event for it, whatever Include holds.
C6_ExactlyOneExcludedEvent ==
    (Done /\ err.code \in {"nil", "SyncError"}) =>
        \A t \in Range(Exclude) :
            /\ \A i \in 1..Len(callLog) : IsFetch(callLog[i]) => callLog[i].type # t
            /\ Occurrences(t, ExcludedEventTypes) = 1

\* C6 amended: a type in Exclude is never passed to p.Resources, and the run
\* logs one "excluded" event each time the loop reaches that type: in a run that
\* completes the loop over the types, as many events as the type occurs in the
\* universe (none when a non-empty Include omits it, one when it is there once,
\* two when Include lists it twice), and never more than that in any run.
C6_ExcludedEventPerOccurrence ==
    LET events == ExcludedEventTypes
        passed == TypesPassed
    IN  \A t \in Range(Exclude) :
            /\ \A i \in 1..Len(callLog) : IsFetch(callLog[i]) => callLog[i].type # t
            /\ Occurrences(t, events) = Occurrences(t, passed)
            /\ (Done /\ err.code \in {"nil", "SyncError"}) =>
                   Occurrences(t, events) = Occurrences(t, types)

\* a successful run with an empty Include: the excluded type has its one event
\* and no fetch, the other type was fetched
C6_Witness ==
    /\ Done
    /\ err = Nil
    /\ Len(Include) = 0
    /\ Len(Exclude) = 1
    /\ Occurrences(Exclude[1], ExcludedEventTypes) = 1
    /\ Len(SelectSeq(callLog, IsFetch)) = 1
    /\ Len(SelectSeq(callLog, IsRead)) >= 1

\* the units of a resource re with k expansions: the original, then the
\* expansions in the order ImportState returned them
ExpectedUnits(re, k) == [j \in 1..(k + 1) |-> <<re[1], re[2], j - 1>>]

ReadUnitsOf(re) == UnitsOf(SelectSeq(callLog, LAMBDA c : IsRead(c) /\ OfResource(c.unit, re)))

OkReadUnitsOf(re) ==
    UnitsOf(SelectSeq(callLog, LAMBDA c : IsRead(c) /\ c.ok /\ OfResource(c.unit, re)))

HclOutOf(re) ==
    UnitsOf(SelectSeq(callLog, LAMBDA c : IsHCL(c) /\ c.ok /\ OfResource(c.unit, re)))

StateOutOf(re) ==
    UnitsOf(SelectSeq(callLog, LAMBDA c : IsState(c) /\ c.ok /\ OfResource(c.unit, re)))

\* the units serialized into the hcl writer, in order
hclOut == UnitsOf(SelectSeq(callLog, LAMBDA c : IsHCL(c) /\ c.ok))

\* the units serialized into the tfstate writer, in order
stateOut == UnitsOf(SelectSeq(callLog, LAMBDA c : IsState(c) /\ c.ok))

\* Import is in the loop over the units of a resource
InUnitLoop == pc \in {"units", "hcl", "state"}

\* the units of the current resource Read has been called on
UnitsReadSoFar == IF pc = "units" THEN ui - 1 ELSE ui

\* C7: while Import is at a resource whose ImportState returned k additional
\* resources, the units read for it are, in order, the original and then the
\* expansions in the order returned, as far as the loop has come; when the loop
\* over its units has run to its end they are exactly those k+1 units, and the
\* units serialized into each configured writer are the successfully read ones,
\* in the same order.
C7_OriginalThenExpansions ==
    InUnitLoop =>
        LET re == CurrentResource
            k == ExpansionsOf(re)
            expected == ExpectedUnits(re, k)
            reads == ReadUnitsOf(re)
        IN  /\ re = expected[1]
            /\ UnitsReadSoFar <= k + 1
            /\ reads = SubSeq(expected, 1, UnitsReadSoFar)
            /\ (pc = "units" /\ ui > Len(units)) =>
                   /\ reads = expected
                   /\ Len(reads) = k + 1
                   /\ hcl => HclOutOf(re) = OkReadUnitsOf(re)
                   /\ tfstate => StateOutOf(re) = OkReadUnitsOf(re)

\* a resource with two expansions whose three units were read, the first
\* expansion failing, and the other two serialized in order into both writers
C7_Witness ==
    /\ pc = "units"
    /\ ui > Len(units)
    /\ Len(units) = 3
    /\ hcl
    /\ tfstate
    /\ ReadUnitsOf(units[1]) = <<units[1], units[2], units[3]>>
    /\ hclOut = <<units[1], units[3]>>
    /\ stateOut = <<units[1], units[3]>>

\* the universe the filter and the provider determine
ExpectedUniverse == IF Include # <<>> THEN Include ELSE providerTypes

FetchedTypes == TypesOf(SelectSeq(callLog, IsFetch))

\* C8: once validation has passed Include, the types Import iterates over are
\* Include in the caller's order when Include is non-empty and otherwise the
\* list p.ResourceTypes() returned, in its order; the types the loop has
\* reached are a prefix of it; the types fetched are always a prefix of that
\* sequence without the excluded types, and all of it in a run that returns nil.
C8_UniverseAndFetchOrder ==
    LET universe == ExpectedUniverse
        fetched == FetchedTypes
        wanted == NonExcluded(universe)
    IN  /\ (pc # "start" /\ ~(IsValidationError(err) /\ err.in = "Include")) =>
               /\ types = universe
               /\ Len(Include) = 0 => providerTypes \in ProviderLists
        /\ Len(logger) <= Len(universe)
        /\ logger = SubSeq(universe, 1, Len(logger))
        /\ Len(fetched) <= Len(wanted)
        /\ fetched = SubSeq(wanted, 1, Len(fetched))
        /\ (Done /\ err = Nil) =>
               /\ logger = universe
               /\ fetched = wanted

\* a successful run over an Include of two types in non-alphabetical order,
\* both fetched in that order
C8_Witness ==
    /\ Done
    /\ err = Nil
    /\ Include = <<"b", "a">>
    /\ FetchedTypes = <<"b", "a">>

\* C9: with both writers nil no HCL, State or Sync call is ever made, and a
\* run with a valid filter in which no Resources and no ImportState call fails
\* returns nil.
C9_NoSinksNoSerializeNoSync ==
    (~hcl /\ ~tfstate) =>
        /\ \A i \in 1..Len(callLog) : ~IsSerialize(callLog[i]) /\ ~IsSync(callLog[i])
        /\ Done =>
               \/ err = Nil
               \/ IsValidationError(err) /\ (HasUnsupported(Include) \/ HasUnsupported(Exclude))
               \/ /\ err.code \in {"FetchError", "ImportStateError"}
                  /\ Failed(Last(callLog))
                  /\ IsFetch(Last(callLog)) \/ IsImportState(Last(callLog))

\* a run without writers that fetched two types, read units and returned nil
C9_Witness ==
    /\ ~hcl
    /\ ~tfstate
    /\ Done
    /\ err = Nil
    /\ Len(SelectSeq(callLog, IsFetch)) = 2
    /\ Len(SelectSeq(callLog, LAMBDA c : IsRead(c) /\ c.ok)) >= 1
    /\ Len(SelectSeq(callLog, LAMBDA c : IsRead(c) /\ Failed(c))) >= 1

ErrorEvents == SelectSeq(logs, LAMBDA e : e.key = "error")

FailedReads == SelectSeq(callLog, LAMBDA c : IsRead(c) /\ Failed(c))

\* C10: a Read failure is never what Import returns: a run with a valid
\* filter in which only Read calls fail returns nil, an error returned is the
\* validation error or the error of the failed last call, which is no Read, and
\* every failed Read has its "error" event in the log, with the id of the
\* resource being processed.
C10_ReadFailuresNeverReturned ==
    LET events == ErrorEvents
        failures == FailedReads
    IN  /\ (Done /\ ~HasUnsupported(Include) /\ ~HasUnsupported(Exclude)
                 /\ \A i \in 1..Len(callLog) : Failed(callLog[i]) => IsRead(callLog[i])) =>
               err = Nil
        /\ (Done /\ err # Nil /\ ~IsValidationError(err)) =>
               /\ callLog # <<>>
               /\ Failed(Last(callLog))
               /\ ~IsRead(Last(callLog))
        /\ Len(events) = Len(failures)
        /\ \A i \in 1..Len(events) : OfResource(failures[i].unit, events[i].id)

\* a run that returned nil although two Reads failed, with both writers
C10_Witness ==
    /\ Done
    /\ err = Nil
    /\ hcl
    /\ tfstate
    /\ Len(FailedReads) = 2
    /\ Len(hclOut) >= 1

\* the units whose Read returned nil within the retry bound, in order
OkReadUnits == UnitsOf(SelectSeq(callLog, LAMBDA c : IsRead(c) /\ c.ok))

\* sink out holds, once each and in order, the units of reads, all of them or
\* all but the last; calls is the number of serialize calls made on the sink
SerializedOnceInto(out, calls, reads) ==
    /\ IsPrefix(out, reads)
    /\ Len(out) >= Len(reads) - 1
    /\ calls <= Len(reads)
    /\ calls <= Len(out) + 1

\* C11: a unit whose Read succeeds on any attempt within the retry bound, the
\* first, a later or the final one, is treated as successfully read: Import goes
\* on to serialize that unit, and in a run that has returned every such unit was
\* serialized exactly once into every configured sink, in the order read (but
\* for the unit at which a serialization failed and ended the run); a run that
\* returns nil has serialized all of them into every configured sink and has
\* called each configured sink's Sync once.
C11_RetriedReadIsSerialized ==
    /\ pc \in {"hcl", "state"} =>
           /\ attempts \in 1..DefaultAttempts
           /\ LET i == Len(callLog) - (IF pc = "state" /\ hcl THEN 1 ELSE 0)
              IN  /\ i >= 1
                  /\ IsRead(callLog[i]) /\ callLog[i].ok /\ callLog[i].unit = units[ui]
                  /\ i < Len(callLog) =>
                         IsHCL(Last(callLog)) /\ Last(callLog).ok /\ Last(callLog).unit = units[ui]
    /\ pc \notin {"hcl", "state"} => attempts = 0
    /\ Done =>
           LET reads == OkReadUnits
               h == hclOut
               st == stateOut
           IN  /\ Cardinality(Range(reads)) = Len(reads)
               /\ IF hcl
                  THEN SerializedOnceInto(h, Len(SelectSeq(callLog, IsHCL)), reads)
                  ELSE Len(SelectSeq(callLog, IsHCL)) = 0
               /\ IF tfstate
                  THEN SerializedOnceInto(st, Len(SelectSeq(callLog, IsState)), reads)
                  ELSE Len(SelectSeq(callLog, IsState)) = 0
               /\ ((hcl /\ h # reads) \/ (tfstate /\ st # reads)) =>
                      err.code = "SerializationError"
               /\ err = Nil =>
                      /\ hcl => SyncCalls("hcl.Sync") = 1
                      /\ tfstate => SyncCalls("tfstate.Sync") = 1

\* the second of two resources of a type was read on the final attempt and is
\* serialized into the config sink, after the first was serialized into both
C11_Witness ==
    /\ pc = "state"
    /\ attempts = DefaultAttempts
    /\ hcl
    /\ tfstate
    /\ Len(resources) = 2
    /\ ri = 2
    /\ hclOut = <<resources[1], resources[2]>>
    /\ stateOut = <<resources[1]>>

\* the sink a serialize call writes into, as the error names it
SinkOf(c) == IF IsHCL(c) THEN "Config" ELSE "State"

\* C12: a failed HCL or State call is the last call of the run and is made
\* once: Import has returned, with the serialization error of that sink wrapped
\* with the type of the unit, so no State call on the same unit, no other
\* serialize, Read, ImportState or Resources call and no Sync follows it, and
\* the unit has no second call of the failed kind.
C12_SerializationFailureAborts ==
    \A i \in 1..Len(callLog) :
        (Failed(callLog[i]) /\ IsSerialize(callLog[i])) =>
            /\ i = Len(callLog)
            /\ Done
            /\ err = ErrOf("SerializationError", types[callLog[i].unit[1]], SinkOf(callLog[i]))
            /\ callLog[i].type = types[callLog[i].unit[1]]
            /\ \A j \in 1..(i - 1) :
                   callLog[j].op = callLog[i].op => callLog[j].unit # callLog[i].unit

\* the config serialization of the second unit of a run with both writers
\* failed after the first unit was serialized into both
C12_Witness ==
    /\ Done
    /\ hcl
    /\ tfstate
    /\ err.code = "SerializationError"
    /\ err.in = "Config"
    /\ IsHCL(Last(callLog))
    /\ Failed(Last(callLog))
    /\ Len(hclOut) = 1
    /\ Len(stateOut) = 1

\* C13: a failed p.Resources call is the last call of the run and Import has
\* returned its error: the type is not fetched a second time, the loop over the
\* types stays at the failed type (no later type is logged, skipped or fetched),
\* and no Read, HCL, State or Sync call follows.
C13_FetchFailureAborts ==
    \A i \in 1..Len(callLog) :
        (Failed(callLog[i]) /\ IsFetch(callLog[i])) =>
            /\ i = Len(callLog)
            /\ Done
            /\ err = ErrOf("FetchError", callLog[i].type, "WithStack")
            /\ ti = callLog[i].unit[1]
            /\ callLog[i].type = types[ti]
            /\ Len(logger) = ti
            /\ Last(logs) = Event(logger, "msg", "fetching the list of resources")
            /\ \A j \in 1..(i - 1) : IsFetch(callLog[j]) => callLog[j].unit[1] < ti

\* the fetch of the first of two types failed, the second is not excluded and
\* was never reached
C13_Witness ==
    /\ Done
    /\ err.code = "FetchError"
    /\ Len(types) = 2
    /\ ti = 1
    /\ ~IsExcluded(types[2])
    /\ Len(callLog) = 1

\* the sink a Sync call is on, as the error names it
SyncSinkOf(c) == IF c.op = "hcl.Sync" THEN "Config" ELSE "State"

\* C14: with both writers, tfstate.Sync is only ever called directly after an
\* hcl.Sync that returned nil, so the config sink is synced first; a failed Sync
\* of either sink is the last call of the run and Import has returned the Sync
\* error of that very sink (Config for hcl.Sync, State for tfstate.Sync).
C14_ConfigSyncFirstAndSinkNamed ==
    (hcl /\ tfstate) =>
        \A i \in 1..Len(callLog) :
            /\ callLog[i].op = "tfstate.Sync" =>
                   /\ i > 1
                   /\ callLog[i - 1].op = "hcl.Sync"
                   /\ callLog[i - 1].ok
            /\ (Failed(callLog[i]) /\ IsSync(callLog[i])) =>
                   /\ i = Len(callLog)
                   /\ Done
                   /\ err = ErrOf("SyncError", "", SyncSinkOf(callLog[i]))
            /\ (IsSync(callLog[i]) /\ callLog[i].ok /\ Done) =>
                   (err = Nil \/ (err.code = "SyncError" /\ err.in = "State"))

\* a run with both writers whose hcl.Sync returned nil and whose tfstate.Sync
\* failed, after units were serialized
C14_Witness ==
    /\ Done
    /\ hcl
    /\ tfstate
    /\ err = ErrOf("SyncError", "", "State")
    /\ SyncCalls("hcl.Sync") = 1
    /\ Failed(Last(callLog))
    /\ Last(callLog).op = "tfstate.Sync"
    /\ Len(stateOut) >= 1

\* the events logged through the logger of a resource (line 67)
ResourceEvents == SelectSeq(logs, LAMBDA e : e.id # <<>>)

\* C15: every event logged while Import processes a resource carries one
\* resource-type field, whose value is the type being processed, the id of the
\* resource, its 1-based index among the resources fetched for the type and
\* their number.  (The "func" keyval is put on the logger once, at line 22, and
\* is on every event.)
C15_EventsCarryTheCurrentTypeOnly ==
    LET events == ResourceEvents
    IN  \A i \in 1..Len(events) :
            LET e == events[i]
            IN  /\ e.resource = <<types[e.id[1]]>>
                /\ e.current = e.id[2]
                /\ e.total = FetchedOf(e.id[1])

\* Import has left the loop over the types
AtFinalization == pc \in {"syncHcl", "syncState"} \/ (Done /\ err.code \in {"nil", "SyncError"})

\* C16: with both writers, the units serialized into the state sink are
\* always a prefix of the units serialized into the config sink, shorter by at
\* most one unit, and the two sequences are equal once Import has left the loop
\* over the types.
C16_StateOutPrefixOfHclOut ==
    (hcl /\ tfstate) =>
        LET h == hclOut
            st == stateOut
        IN  /\ IsPrefix(st, h)
            /\ Len(h) <= Len(st) + 1
            /\ AtFinalization => st = h

\* the second unit of a run is in the config sink and not yet in the state sink
C16_Witness ==
    /\ hcl
    /\ tfstate
    /\ pc = "state"
    /\ Len(hclOut) = 2
    /\ Len(stateOut) = 1

\* the errors Import returns before the finalization
EarlyErrorCodes ==
    {"ErrProviderResourceNotSupported", "FetchError", "ImportStateError", "SerializationError"}

\* a call whose failure ends the run before the finalization
FailedBeforeFinalization(c) == Failed(c) /\ ~IsRead(c) /\ ~IsSync(c)

\* C17: a run in which the filter validation, a Resources, an ImportState, an
\* HCL or a State call failed has no Sync call on any sink, whatever was
\* serialized before, and Import has returned that error.
C17_EarlyErrorNeverSyncs ==
    LET syncs == SyncCalls("hcl.Sync") + SyncCalls("tfstate.Sync")
    IN  /\ (Done /\ err.code \in EarlyErrorCodes) => syncs = 0
        /\ (HasUnsupported(Include) \/ HasUnsupported(Exclude)) => syncs = 0
        /\ \A i \in 1..Len(callLog) :
               FailedBeforeFinalization(callLog[i]) =>
                   /\ syncs = 0
                   /\ Done
                   /\ err.code \in EarlyErrorCodes

\* a run with both writers that returned the error of an ImportState after a
\* unit was serialized into both sinks
C17_Witness ==
    /\ Done
    /\ hcl
    /\ tfstate
    /\ err.code = "ImportStateError"
    /\ Len(hclOut) >= 1
    /\ Len(stateOut) >= 1
    /\ SyncCalls("hcl.Sync") + SyncCalls("tfstate.Sync") = 0

\* C18: a failed ImportState call is the last call of the run and Import has
\* returned its error: no unit of that resource, original or expansion, has a
\* Read, HCL or State call, the resource has no second ImportState call, and the
\* loops over the resources and the types stay where they were.
C18_ImportStateFailureAborts ==
    \A i \in 1..Len(callLog) :
        (Failed(callLog[i]) /\ IsImportState(callLog[i])) =>
            LET re == callLog[i].unit
            IN  /\ i = Len(callLog)
                /\ Done
                /\ err = ErrOf("ImportStateError", callLog[i].type, "")
                /\ re = <<ti, ri, 0>>
                /\ callLog[i].type = types[ti]
                /\ \A j \in 1..(i - 1) :
                       /\ (IsRead(callLog[j]) \/ IsSerialize(callLog[j])) =>
                              ~OfResource(callLog[j].unit, re)
                       /\ IsImportState(callLog[j]) => callLog[j].unit # re

\* the ImportState of the first of two resources of the first of two types
\* failed: the second resource and the second type were never reached
C18_Witness ==
    /\ Done
    /\ err.code = "ImportStateError"
    /\ Len(types) = 2
    /\ ti = 1
    /\ ~IsExcluded(types[2])
    /\ Len(resources) = 2
    /\ ri = 1
    /\ Len(callLog) = 2

\* the config sink's Sync was called and failed
ConfigSyncFailed == \E i \in 1..Len(callLog) : Failed(callLog[i]) /\ callLog[i].op = "hcl.Sync"

\* C19: with both writers, once hcl.Sync has failed Import has returned the
\* Sync error of the config sink and tfstate.Sync is not called in the run,
\* although the state sink holds the same units as the config sink.
C19_ConfigSyncFailureSkipsStateSync ==
    (hcl /\ tfstate /\ ConfigSyncFailed) =>
        /\ SyncCalls("tfstate.Sync") = 0
        /\ SyncCalls("hcl.Sync") = 1
        /\ Done
        /\ err = ErrOf("SyncError", "", "Config")
        /\ stateOut = hclOut

\* hcl.Sync failed in a run that serialized two units into both sinks
C19_Witness ==
    /\ hcl
    /\ tfstate
    /\ ConfigSyncFailed
    /\ Done
    /\ Len(hclOut) = 2
    /\ stateOut = hclOut
    /\ SyncCalls("tfstate.Sync") = 0

====
